---- MODULE Spec2Model ----
(***************************************************************************)
(* Pincode Validator Pro: the rule store (table PincodeRule), the admin   *)
(* action handler (create, bulk_upload, delete) and the public lookup     *)
(* loader, as a state machine.  One action is one HTTP request, handled   *)
(* from its first line to its response.                                   *)
(*                                                                         *)
(* JavaScript strings are TLA+ strings (read with Len, SubSeq and \o).     *)
(* A nullable value (string | null, number | null, undefined) is an       *)
(* option: <<>> is null/undefined and <<v>> is the value v.                *)
(***************************************************************************)
EXTENDS Integers, Sequences, FiniteSets, TLC

\* store, nextId: the rows of PincodeRule and the next generated id.
\* pc: "idle" between requests, "done" when a request has been answered.
\* req, resp: the request being answered and its response.
\* existingSet, invalid, ops: the bulk upload handler's variables of those names.
VARIABLES store, nextId, pc, req, resp, existingSet, invalid, ops

vars == <<store, nextId, pc, req, resp, existingSet, invalid, ops>>

(* ---------------------------------------------------------------------- *)
(* Bounds                                                                  *)
(* ---------------------------------------------------------------------- *)

\* Number of rows ever inserted in one behaviour (ids are never reused).
MaxId == 2

\* The storage may fail at any of the first MaxOps operations of a batch.
MaxOps == 2

(* ---------------------------------------------------------------------- *)
(* Options and strings                                                     *)
(* ---------------------------------------------------------------------- *)

Null == <<>>

Some(v) == <<v>>

\* a ?? b
Coalesce(a, b) == IF a # Null THEN a ELSE b

\* o || "" for a string option o: null, undefined and "" all give "".
OrEmpty(o) == IF o = Null THEN "" ELSE o[1]

\* !o for a string option o
Falsy(o) == o = Null \/ o = Some("")

Char(s, i) == SubSeq(s, i, i)

Digits == {"0", "1", "2", "3", "4", "5", "6", "7", "8", "9"}

DigitVal(c) ==
  CASE c = "0" -> 0 [] c = "1" -> 1 [] c = "2" -> 2 [] c = "3" -> 3 [] c = "4" -> 4
    [] c = "5" -> 5 [] c = "6" -> 6 [] c = "7" -> 7 [] c = "8" -> 8 [] c = "9" -> 9

WhiteSpace == {" ", "\t", "\n", "\r"}

RECURSIVE TrimStart(_)
TrimStart(s) ==
  IF Len(s) > 0 /\ Head(s) \in WhiteSpace THEN TrimStart(Tail(s)) ELSE s

RECURSIVE TrimEnd(_)
TrimEnd(s) ==
  IF Len(s) > 0 /\ Char(s, Len(s)) \in WhiteSpace
    THEN TrimEnd(SubSeq(s, 1, Len(s) - 1))
    ELSE s

\* String.prototype.trim
Trim(s) == TrimEnd(TrimStart(s))

UpperCase == "ABCDEFGHIJKLMNOPQRSTUVWXYZ"

LowerCase == "abcdefghijklmnopqrstuvwxyz"

\* The lower-case letter of each upper-case letter.
LowerOf ==
  [c \in {Char(UpperCase, i) : i \in 1..Len(UpperCase)} |->
     Char(LowerCase, CHOOSE i \in 1..Len(UpperCase) : Char(UpperCase, i) = c)]

LowerChar(c) == IF c \in DOMAIN LowerOf THEN LowerOf[c] ELSE c

\* The concatenation of the strings seq[lo..hi].
RECURSIVE Concat(_, _, _)
Concat(seq, lo, hi) ==
  IF lo > hi THEN ""
  ELSE IF lo = hi THEN seq[lo]
  ELSE Concat(seq, lo, (lo + hi) \div 2) \o Concat(seq, ((lo + hi) \div 2) + 1, hi)

\* String.prototype.toLowerCase
ToLowerCase(s) == Concat([i \in 1..Len(s) |-> LowerChar(Char(s, i))], 1, Len(s))

StartsWith(s, p) == Len(s) >= Len(p) /\ SubSeq(s, 1, Len(p)) = p

EndsWith(s, p) == Len(s) >= Len(p) /\ SubSeq(s, Len(s) - Len(p) + 1, Len(s)) = p

\* The positions at which from occurs in s.
Occurrences(s, from) ==
  {i \in 1..(Len(s) - Len(from) + 1) : SubSeq(s, i, i + Len(from) - 1) = from}

\* s with the occurrences of a pattern of length n at starts replaced by to.
ReplaceAt(s, starts, n, to) ==
  Concat([i \in 1..Len(s) |->
            IF i \in starts THEN to
            ELSE IF \E j \in starts : j < i /\ i < j + n THEN ""
            ELSE Char(s, i)],
         1, Len(s))

\* String.prototype.replace(/from/g, to) for a literal pattern of one or two
\* different characters (no match overlaps another): every match becomes to.
ReplaceAll(s, from, to) == ReplaceAt(s, Occurrences(s, from), Len(from), to)

\* The position of the k-th member of at, 0 for k = 0 and n + 1 past the last.
Position(at, k, n) ==
  IF k = 0 THEN 0
  ELSE IF k > Cardinality(at) THEN n + 1
  ELSE CHOOSE i \in at : Cardinality({j \in at : j < i}) = k - 1

\* The pieces of s between the separators at the positions at.
SplitAt(s, at) ==
  [k \in 1..(Cardinality(at) + 1) |->
     SubSeq(s, Position(at, k - 1, Len(s)) + 1, Position(at, k, Len(s)) - 1)]

\* String.prototype.split(sep) for a one-character separator: a sequence of
\* strings, one more than the separators in s.
Split(s, sep) == SplitAt(s, Occurrences(s, sep))

\* /^\d{6}$/.test(s)
IsPincode(s) == Len(s) = 6 /\ \A i \in 1..6 : Char(s, i) \in Digits

(* ---------------------------------------------------------------------- *)
(* Helpers of the admin route                                              *)
(* ---------------------------------------------------------------------- *)

TrueWords == {"true", "1", "yes"}

\* toBool(val, fallback): val is a string option.
toBool(val, fallback) ==
  IF Falsy(val) THEN fallback ELSE ToLowerCase(Trim(val[1])) \in TrueWords

AllDigits(s) == \A i \in 1..Len(s) : Char(s, i) \in Digits

AllZeros(s) == \A i \in 1..Len(s) : Char(s, i) = "0"

RECURSIVE DigitsValue(_, _)
DigitsValue(s, acc) ==
  IF s = "" THEN acc ELSE DigitsValue(Tail(s), 10 * acc + DigitVal(Head(s)))

NaN == [nan |-> TRUE, integer |-> FALSE, value |-> 0]

\* The number written sign, integer digits ip, fraction digits fp.
NumberFrom(neg, ip, fp) ==
  IF ~(AllDigits(ip) /\ AllDigits(fp) /\ Len(ip) + Len(fp) > 0) THEN NaN
  ELSE [nan |-> FALSE, integer |-> AllZeros(fp),
        value |-> IF neg THEN 0 - DigitsValue(ip, 0) ELSE DigitsValue(ip, 0)]

NumberParts(neg, parts) ==
  IF Len(parts) > 2 THEN NaN
  ELSE NumberFrom(neg, parts[1], IF Len(parts) = 2 THEN parts[2] ELSE "")

Unsigned(s) == IF Len(s) > 0 /\ Head(s) \in {"+", "-"} THEN Tail(s) ELSE s

\* Number(s) for a trimmed, non-empty s.  The texts the environment sends are
\* decimal numerals (digits, a sign, a decimal point) or no numerals at all;
\* exponents, radix prefixes and "Infinity" are not among them.  The result
\* says whether the number is NaN, whether it is an integer, and its value
\* when it is one.
NumberOf(s) == NumberParts(Len(s) > 0 /\ Head(s) = "-", Split(Unsigned(s), "."))

\* if (!Number.isFinite(n) || !Number.isInteger(n) || n < 0) return null; return n
IntOrNull(n) == IF n.nan \/ ~n.integer \/ n.value < 0 THEN Null ELSE Some(n.value)

\* const s = ...trim(); if (!s) return null; const n = Number(s)
TrimmedIntOrNull(s) == IF s = "" THEN Null ELSE IntOrNull(NumberOf(s))

\* toIntOrNull(val): val is a string option; the result is a number option.
toIntOrNull(val) == IF Falsy(val) THEN Null ELSE TrimmedIntOrNull(Trim(val[1]))

NonEmpty(l) == l # ""

\* seq.map((l) => l.trim())
TrimAll(seq) == [i \in 1..Len(seq) |-> Trim(seq[i])]

\* The last index at which h occurs in headers.
LastIndex(headers, h) ==
  CHOOSE j \in 1..Len(headers) :
    /\ headers[j] = h
    /\ \A k \in 1..Len(headers) : headers[k] = h => k <= j

\* cols[i] ?? ""
ColOrEmpty(cols, i) == IF i <= Len(cols) THEN cols[i] ELSE ""

\* The object built for one data line: obj[h] = cols[i] ?? "" for every
\* header h at index i, a later column of the same name overwriting an
\* earlier one.
RowObject(headers, cols) ==
  [h \in {headers[i] : i \in 1..Len(headers)} |-> ColOrEmpty(cols, LastIndex(headers, h))]

\* line.split(",").map((c) => c.trim())
Cells(line) == TrimAll(Split(line, ","))

\* headers and rows of the non-blank, trimmed lines of a file.
parseLines(lines) ==
  IF Len(lines) = 0 THEN [headers |-> <<>>, rows |-> <<>>]
  ELSE [headers |-> Cells(lines[1]),
        rows |-> [k \in 1..(Len(lines) - 1) |-> RowObject(Cells(lines[1]), Cells(lines[k + 1]))]]

\* parseCsv(text)
parseCsv(text) ==
  parseLines(SelectSeq(TrimAll(Split(ReplaceAll(ReplaceAll(text, "\r\n", "\n"), "\r", "\n"),
                                     "\n")),
                       NonEmpty))

(* ---------------------------------------------------------------------- *)
(* The rule store: table PincodeRule behind the ORM                        *)
(* ---------------------------------------------------------------------- *)

\* The database: the rows of PincodeRule and the next generated id.  A row is
\* [id, shop, pincode, deliverable, etaMinDays, etaMaxDays, codAvailable,
\* shippingFee, createdAt]; createdAt is the logical time of the insert.
Db(rows, next) == [rows |-> rows, nextId |-> next]

IdOf(n) == "r" \o ToString(n)

\* Fault: a lookup keyed by the pincode alone.
findByPincode(rows, shop, pincode) ==
  IF \E r \in rows : r.pincode = pincode
    THEN Some(CHOOSE r \in rows : r.pincode = pincode /\ \A q \in rows : q.pincode = pincode => q.createdAt <= r.createdAt)
    ELSE Null

\* findUnique({ where: { shop_pincode: { shop, pincode } } }): the row option.
findUnique(rows, shop, pincode) ==
  LET hit == {r \in rows : r.shop = shop /\ r.pincode = pincode}
  IN  IF hit = {} THEN Null ELSE Some(CHOOSE r \in hit : TRUE)

\* The row created for op with the id and the insert time n.
NewRow(op, n) ==
  [id |-> IdOf(n), shop |-> op.shop, pincode |-> op.pincode,
   deliverable |-> op.data.deliverable,
   etaMinDays |-> op.data.etaMinDays,
   etaMaxDays |-> op.data.etaMaxDays,
   codAvailable |-> op.data.codAvailable,
   shippingFee |-> op.data.shippingFee,
   createdAt |-> n]

\* Fault: a write that never looks for the existing row.
insertAlways(db, op) == [rows |-> db.rows \cup {NewRow(op, db.nextId)}, nextId |-> db.nextId + 1]

\* Fault: an update that patches only the fields submitted with a value.
upsertPatching(db, op) ==
  IF \E r \in db.rows : r.shop = op.shop /\ r.pincode = op.pincode
    THEN [rows |-> {IF r.shop = op.shop /\ r.pincode = op.pincode
                     THEN [r EXCEPT !.deliverable = op.data.deliverable,
                                    !.etaMinDays = Coalesce(op.data.etaMinDays, @),
                                    !.etaMaxDays = Coalesce(op.data.etaMaxDays, @),
                                    !.codAvailable = op.data.codAvailable,
                                    !.shippingFee = Coalesce(op.data.shippingFee, @)]
                     ELSE r : r \in db.rows},
          nextId |-> db.nextId]
    ELSE [rows |-> db.rows \cup {NewRow(op, db.nextId)}, nextId |-> db.nextId + 1]

\* upsert({ where: shop_pincode, update: data, create: {shop, pincode} + data })
\* on op = [shop, pincode, data].
upsert(db, op) ==
  IF \E r \in db.rows : r.shop = op.shop /\ r.pincode = op.pincode
    THEN Db({IF r.shop = op.shop /\ r.pincode = op.pincode
               THEN [r EXCEPT !.deliverable = op.data.deliverable,
                              !.etaMinDays = op.data.etaMinDays,
                              !.etaMaxDays = op.data.etaMaxDays,
                              !.codAvailable = op.data.codAvailable,
                              !.shippingFee = op.data.shippingFee]
               ELSE r : r \in db.rows},
            db.nextId)
    ELSE Db(db.rows \cup {NewRow(op, db.nextId)}, db.nextId + 1)

\* Fault: the operations of a batch applied last to first.
RECURSIVE ApplyOpsBackwards(_, _)
ApplyOpsBackwards(db, batch) ==
  IF batch = <<>> THEN db ELSE upsert(ApplyOpsBackwards(db, Tail(batch)), Head(batch))

RECURSIVE ApplyOps(_, _)
ApplyOps(db, batch) ==
  IF batch = <<>> THEN db ELSE ApplyOps(upsert(db, Head(batch)), Tail(batch))

\* Fault: a batch without a transaction, the operations before the failing
\* one staying written.
sequentialWrites(db, batch, failAt) ==
  IF failAt = 0 THEN ApplyOps(db, batch) ELSE ApplyOps(db, SubSeq(batch, 1, failAt - 1))

\* db.$transaction(batch): the operations in order, all or none.  failAt = 0
\* is a commit; failAt = k > 0 is a storage failure at the k-th operation,
\* which rolls the transaction back and throws.
transaction(db, batch, failAt) ==
  IF failAt = 0 THEN ApplyOps(db, batch) ELSE db

\* Fault: a delete keyed by the pincode of the row that has the id.
deleteByPincode(db, id) ==
  [rows |-> {r \in db.rows : \A q \in db.rows : q.id = id => q.pincode # r.pincode},
   nextId |-> db.nextId]

\* delete({ where: { id } }) on a row that exists.
deleteById(db, id) == Db({r \in db.rows : r.id # id}, db.nextId)

(* ---------------------------------------------------------------------- *)
(* Requests the environment sends                                          *)
(* ---------------------------------------------------------------------- *)

ShopA == "ppdt-store.myshopify.com"

ShopB == "other-store.myshopify.com"

Shops == {ShopA, ShopB}

CreateForm(p, d, c, mn, mx, fee) ==
  [pincode |-> p, deliverable |-> d, codAvailable |-> c,
   etaMinDays |-> mn, etaMaxDays |-> mx, shippingFee |-> fee]

\* The two forms the second shop sends as well: one pincode, two rules.
SharedCreateForms ==
  { CreateForm(Some("110001"), Some("true"), Some("true"), Some("2"), Some("4"), Some("49")),
    CreateForm(Some("110001"), Some("false"), Some("false"), Some(""), Some(""), Some("")) }

CreateForms ==
  SharedCreateForms \cup
  {
    CreateForm(Some(" 560001 "), Null, Null, Null, Null, Null),
    CreateForm(Some("560001"), Some("yes"), Some("1"), Some("0"), Some(" 7 "), Some("1.0")),
    CreateForm(Some("11000"), Some("true"), Some("false"), Some("2"), Some("4"), Some("49")),
    CreateForm(Null, Some("true"), Some("false"), Some(""), Some(""), Some("")),
    CreateForm(Some("110001"), Some("true"), Some("false"), Some("-1"), Some("4"), Some("49")),
    CreateForm(Some("110001"), Some("true"), Some("false"), Some("2"), Some("1.5"), Some("49")),
    CreateForm(Some("110001"), Some("true"), Some("false"), Some("2"), Some("4"), Some("abc")) }

SampleHeader == "pincode,deliverable,etaMinDays,etaMaxDays,codAvailable,shippingFee"

\* The sample file of the upload page, with a row whose pincode is no pincode.
SampleFile == SampleHeader \o "\n110001,true,2,4,true,49\nabc123,true,2,4,true,49"

\* n copies of s, one after the other.
RECURSIVE Repeat(_, _)
Repeat(s, n) == IF n = 0 THEN "" ELSE s \o Repeat(s, n - 1)

\* Rows before and after the one good row of LongFile.
RowsBefore == 25

RowsAfter == 27

\* A file with more rejected rows than the response lists: RowsBefore rows
\* without a pincode, one good row, RowsAfter rows without a pincode.
LongFile ==
  "pincode\n" \o Repeat("x\n", RowsBefore) \o "560001\n" \o Repeat("x\n", RowsAfter)

CsvFiles ==
  { LongFile,
    "pincode,deliverable,codAvailable\n110001,maybe,maybe",
    "pincode,\n560001,0",
    "",
    "deliverable,etaMinDays\ntrue,2",
    SampleFile,
    SampleHeader \o "\r\n110001,false,,,,\r\n\r\n560001,yes,0,7,1,1\r\n",
    "Pincode,ETAMINDAYS\n110001,abc\n560001,3",
    "pincode,shippingFee\n110001,20\n110001,10",
    "pincode,shippingFee\n110001,10\n110001,-5",
    "pincode,\n560001,abc",
    "pincode\n12345\n560001" }

BulkForms == {[file |-> Null]} \cup {[file |-> Some(t)] : t \in CsvFiles}

\* What each shop's admin sends: the first shop everything, the second shop
\* enough to hold rules for a pincode the first shop has rules for.
CreateFormsOf(shop) == IF shop = ShopA THEN CreateForms ELSE SharedCreateForms

BulkFormsOf(shop) == IF shop = ShopA THEN BulkForms ELSE {[file |-> Some(SampleFile)]}

DeleteForms ==
  {[id |-> Null], [id |-> Some(" ")], [id |-> Some("nosuchid")]}
    \cup {[id |-> Some(IdOf(n))] : n \in 1..MaxId}

LookupShops == {Null, Some(""), Some(ShopA), Some(ShopB)}

LookupPincodes ==
  {Null, Some("110001"), Some("560001"), Some(" 110001 "), Some("11000a"), Some("1100011")}

Origins ==
  {Null, Some(""), Some("https://ppdt-store.myshopify.com"),
   Some("https://Other-1.MyShopify.com"), Some("https://evil.example"),
   Some("https://-x.myshopify.com"), Some("https://a.b.myshopify.com"),
   Some("http://shop.myshopify.com"), Some("https://shop.myshopify.com.evil.example")}

LookupRequests ==
  {[method |-> "GET", origin |-> Null, shop |-> s, pincode |-> p] :
     s \in LookupShops, p \in LookupPincodes}
  \cup
  {[method |-> m, origin |-> o, shop |-> Some(ShopA), pincode |-> Some("110001")] :
     m \in {"GET", "OPTIONS"}, o \in Origins}
  \cup
  {[method |-> "GET", origin |-> o, shop |-> Null, pincode |-> Some("11000a")] : o \in Origins}

(* ---------------------------------------------------------------------- *)
(* The admin action                                                        *)
(* ---------------------------------------------------------------------- *)

\* What one request leaves behind: the database, the response and, for a
\* bulk upload, the handler's existingSet, invalid and ops.
Outcome(db, response, existing, inv, batch) ==
  [db |-> db, resp |-> response, existingSet |-> existing, invalid |-> inv, ops |-> batch]

json(body, status) == [status |-> status, body |-> body]

bad(error) == json([ok |-> FALSE, error |-> error], 400)

\* An exception that leaves the handler: the framework answers 500.
Thrown == [status |-> 500, body |-> [message |-> "Unexpected Server Error"]]

\* { deliverable, etaMinDays, etaMaxDays, codAvailable, shippingFee }
Data(deliverable, etaMinDays, etaMaxDays, codAvailable, shippingFee) ==
  [deliverable |-> deliverable, etaMinDays |-> etaMinDays, etaMaxDays |-> etaMaxDays,
   codAvailable |-> codAvailable, shippingFee |-> shippingFee]

\* The checks of intent === "create" in order: the error returned, if any.
createError(pincode, data, etaMinRaw, etaMaxRaw, shipRaw) ==
  IF ~IsPincode(pincode) THEN Some("Pincode must be exactly 6 digits.")
  ELSE IF etaMinRaw # "" /\ data.etaMinDays = Null
    THEN Some("ETA Min must be a non-negative integer.")
  ELSE IF etaMaxRaw # "" /\ data.etaMaxDays = Null
    THEN Some("ETA Max must be a non-negative integer.")
  ELSE IF shipRaw # "" /\ data.shippingFee = Null
    THEN Some("Shipping fee must be a non-negative integer.")
  ELSE Null

createChecked(pincode, data, etaMinRaw, etaMaxRaw, shipRaw) ==
  [error |-> createError(pincode, data, etaMinRaw, etaMaxRaw, shipRaw),
   pincode |-> pincode, data |-> data]

\* intent === "create", up to the upsert: what the handler reads from the
\* form, and the error it returns if the form is rejected.
createRead(form) ==
  createChecked(Trim(OrEmpty(form.pincode)),
                Data(toBool(form.deliverable, TRUE), toIntOrNull(form.etaMinDays),
                     toIntOrNull(form.etaMaxDays), toBool(form.codAvailable, FALSE),
                     toIntOrNull(form.shippingFee)),
                Trim(OrEmpty(form.etaMinDays)),
                Trim(OrEmpty(form.etaMaxDays)),
                Trim(OrEmpty(form.shippingFee)))

\* The upsert of intent === "create" and its { ok: true }.
createWrite(db, shop, rd) ==
  IF rd.error # Null THEN Outcome(db, bad(rd.error[1]), {}, <<>>, <<>>)
  ELSE Outcome(upsert(db, [shop |-> shop, pincode |-> rd.pincode, data |-> rd.data]),
               json([ok |-> TRUE], 200), {}, <<>>, <<>>)

\* createRead of every form the environment sends, computed once.
CreateReads == [form \in CreateForms |-> createRead(form)]

\* intent === "create"
createAction(db, shop, form) == createWrite(db, shop, CreateReads[form])

\* r[key] on a row object: the cell option (undefined when r has no such key).
Get(r, key) == IF key \in DOMAIN r THEN Some(r[key]) ELSE Null

\* The last index of headers whose header lower-cases to k.
LastLower(headers, k) ==
  CHOOSE j \in 1..Len(headers) :
    /\ ToLowerCase(headers[j]) = k
    /\ \A m \in 1..Len(headers) : ToLowerCase(headers[m]) = k => m <= j

\* new Map(headers.map((h) => [h.toLowerCase(), h])): for a lower-cased name,
\* the last header that lower-cases to it.
HeaderMap(headers) ==
  [k \in {ToLowerCase(headers[i]) : i \in 1..Len(headers)} |-> headers[LastLower(headers, k)]]

\* headerMap.get(key)
MapGet(hm, key) == IF key \in DOMAIN hm THEN Some(hm[key]) ELSE Null

\* headerMap.get(key) ?? ""
MapGetOrEmpty(hm, key) == IF key \in DOMAIN hm THEN hm[key] ELSE ""

\* String(r[headerMap.get("pincode")!] || "").trim()
RowPincode(r, hm) == Trim(OrEmpty(Get(r, hm["pincode"])))

\* The text of a numeric column of a row, as the row loop reads it:
\*   r[headerMap.get(lower) ?? r[camel] ?? ""] ?? r[headerMap.get(camel) ?? ""] ?? ""
NumericCell(r, hm, lower, camel) ==
  Coalesce(Get(r, Coalesce(MapGet(hm, lower), Coalesce(Get(r, camel), Some("")))[1]),
           Coalesce(Get(r, MapGetOrEmpty(hm, camel)), Some("")))[1]

\* toBool(r[headerMap.get("deliverable") ?? ""] ?? null, true)
RowDeliverable(r, hm) == toBool(Get(r, MapGetOrEmpty(hm, "deliverable")), TRUE)

\* toBool(r[headerMap.get("codavailable") ?? ""] ?? r[headerMap.get("codAvailable") ?? ""] ?? null, false)
RowCodAvailable(r, hm) ==
  toBool(Coalesce(Get(r, MapGetOrEmpty(hm, "codavailable")),
                  Get(r, MapGetOrEmpty(hm, "codAvailable"))),
         FALSE)

\* s || null
OrNull(s) == IF s = "" THEN Null ELSE Some(s)

\* toIntOrNull(String(str || "").trim() || null)
CellInt(str) == toIntOrNull(OrNull(Trim(str)))

\* invalid.push({ row, reason, pincode }); return
Rejected(rowNo, reason, pincode) ==
  [valid |-> FALSE, entry |-> [row |-> rowNo, reason |-> reason, pincode |-> pincode]]

\* The checks of one pass of rows.forEach, in order, and then ops.push.
RowChecked(rowNo, pincode, data, etaMinStr, etaMaxStr, shipStr) ==
  IF ~IsPincode(pincode) THEN Rejected(rowNo, "Invalid pincode (must be 6 digits).", pincode)
  ELSE IF Trim(etaMinStr) # "" /\ data.etaMinDays = Null
    THEN Rejected(rowNo, "etaMinDays must be a non-negative integer.", pincode)
  ELSE IF Trim(etaMaxStr) # "" /\ data.etaMaxDays = Null
    THEN Rejected(rowNo, "etaMaxDays must be a non-negative integer.", pincode)
  ELSE IF Trim(shipStr) # "" /\ data.shippingFee = Null
    THEN Rejected(rowNo, "shippingFee must be a non-negative integer.", pincode)
  ELSE [valid |-> TRUE, pincode |-> pincode, data |-> data]

RowCells(rowNo, pincode, deliverable, codAvailable, etaMinStr, etaMaxStr, shipStr) ==
  RowChecked(rowNo, pincode,
             Data(deliverable, CellInt(etaMinStr), CellInt(etaMaxStr), codAvailable,
                  CellInt(shipStr)),
             etaMinStr, etaMaxStr, shipStr)

\* One pass of rows.forEach on the row at 0-based index idx: either the entry
\* pushed to invalid, or the pincode and data of the upsert pushed to ops.
RowResult(r, idx, hm) ==
  RowCells(idx + 2, RowPincode(r, hm), RowDeliverable(r, hm), RowCodAvailable(r, hm),
           NumericCell(r, hm, "etamindays", "etaMinDays"),
           NumericCell(r, hm, "etamaxdays", "etaMaxDays"),
           NumericCell(r, hm, "shippingfee", "shippingFee"))

\* Fault: a header check that wants the name in lower case.
HasExactPincode(headers) == \E i \in 1..Len(headers) : headers[i] = "pincode"

\* headers.map((h) => h.toLowerCase()).includes("pincode")
HasPincode(headers) == \E i \in 1..Len(headers) : ToLowerCase(headers[i]) = "pincode"

\* parsedPincodes and the row loop's result per row, for a file whose
\* headers include pincode.
bulkRows(csv, hm) ==
  [csv |-> csv,
   hasPincode |-> TRUE,
   parsedPincodes |->
     SelectSeq([i \in 1..Len(csv.rows) |-> RowPincode(csv.rows[i], hm)], IsPincode),
   results |-> [i \in 1..Len(csv.rows) |-> RowResult(csv.rows[i], i - 1, hm)]]

bulkParsed(csv) ==
  IF HasPincode(csv.headers) THEN bulkRows(csv, HeaderMap(csv.headers))
  ELSE [csv |-> csv, hasPincode |-> FALSE, parsedPincodes |-> <<>>, results |-> <<>>]

\* intent === "bulk_upload", the part that reads the file only: the parsed
\* file, the header check, parsedPincodes and the row loop's result per row.
bulkRead(text) == bulkParsed(parseCsv(text))

\* bulkRead of every file the environment sends, computed once.
BulkReads == [text \in CsvFiles |-> bulkRead(text)]

IsValidResult(x) == x.valid

IsInvalidResult(x) == ~x.valid

\* invalid.slice(0, 50)
InvalidCap == 50

\* Fault: the whole list, uncut.
Unsliced(seq, n) == seq

Slice(seq, n) == SubSeq(seq, 1, IF Len(seq) < n THEN Len(seq) ELSE n)

\* parsedPincodes.forEach((p) => (existingSet.has(p) ? updated++ : inserted++))
CountInserted(parsedPincodes, existing) ==
  Cardinality({i \in 1..Len(parsedPincodes) : parsedPincodes[i] \notin existing})

CountUpdated(parsedPincodes, existing) ==
  Cardinality({i \in 1..Len(parsedPincodes) : parsedPincodes[i] \in existing})

UpsertOf(shop, x) == [shop |-> shop, pincode |-> x.pincode, data |-> x.data]

\* The upserts of the accepted rows valid, in file order.
UpsertsOf(valid, shop) == [i \in 1..Len(valid) |-> UpsertOf(shop, valid[i])]

\* The ops array: one upsert per valid row, in file order.
OpsOf(results, shop) == UpsertsOf(SelectSeq(results, IsValidResult), shop)

EntriesOf(rejected) == [i \in 1..Len(rejected) |-> rejected[i].entry]

\* The invalid array: one entry per rejected row, in file order.
InvalidOf(results) == EntriesOf(SelectSeq(results, IsInvalidResult))

\* findMany({ where: { shop, pincode: { in: parsedPincodes } } }) as a set of pincodes
ExistingSet(rows, shop, parsedPincodes) ==
  {r.pincode : r \in {x \in rows :
      x.shop = shop /\ \E i \in 1..Len(parsedPincodes) : parsedPincodes[i] = x.pincode}}

\* The response of a bulk upload that ran to its end.
bulkSummary(parsedPincodes, existing, inv) ==
  json([ok |-> TRUE,
        inserted |-> CountInserted(parsedPincodes, existing),
        updated |-> CountUpdated(parsedPincodes, existing),
        invalidCount |-> Len(inv),
        invalid |-> Slice(inv, InvalidCap)], 200)

\* if (ops.length) await db.$transaction(ops), then the counts and the response.
bulkCommit(db, parsedPincodes, existing, inv, batch, failAt) ==
  IF Len(batch) > 0 /\ failAt # 0
    THEN Outcome(transaction(db, batch, failAt), Thrown, existing, inv, batch)
  ELSE IF Len(batch) > 0
    THEN Outcome(transaction(db, batch, failAt),
                 bulkSummary(parsedPincodes, existing, inv), existing, inv, batch)
  ELSE Outcome(db, bulkSummary(parsedPincodes, existing, inv), existing, inv, batch)

\* intent === "bulk_upload" from the header check on, rd the reading of the file.
bulkWrite(db, shop, rd, failAt) ==
  IF ~rd.hasPincode
    THEN Outcome(db, bad("CSV must include a \"pincode\" column."), {}, <<>>, <<>>)
  ELSE bulkCommit(db, rd.parsedPincodes, ExistingSet(db.rows, shop, rd.parsedPincodes),
                  InvalidOf(rd.results), OpsOf(rd.results, shop), failAt)

\* intent === "bulk_upload": form.file is the uploaded text option (null when
\* the field holds no File).
bulkAction(db, shop, form, failAt) ==
  IF form.file = Null
    THEN Outcome(db, bad("Please upload a CSV file."), {}, <<>>, <<>>)
  ELSE bulkWrite(db, shop, BulkReads[form.file[1]], failAt)

\* delete({ where: { id } }) throws when no row has the id.
deleteWrite(db, id) ==
  IF id = "" THEN Outcome(db, bad("Missing id"), {}, <<>>, <<>>)
  ELSE IF ~\E r \in db.rows : r.id = id THEN Outcome(db, Thrown, {}, <<>>, <<>>)
  ELSE Outcome(deleteById(db, id), json([ok |-> TRUE], 200), {}, <<>>, <<>>)

\* intent === "delete"
deleteAction(db, shop, form) == deleteWrite(db, Trim(OrEmpty(form.id)))

\* An intent that is none of the three.
unknownAction(db) == Outcome(db, bad("Unknown intent"), {}, <<>>, <<>>)

(* ---------------------------------------------------------------------- *)
(* The public lookup (proxy.check)                                         *)
(* ---------------------------------------------------------------------- *)

allowed == <<"https://ppdt-store.myshopify.com">>

AlphaNum == Digits \cup {Char(LowerCase, i) : i \in 1..Len(LowerCase)}

\* /^[a-z0-9][a-z0-9-]*$/.test(label)
IsLabel(label) ==
  /\ Len(label) >= 1
  /\ Head(label) \in AlphaNum
  /\ \A i \in 2..Len(label) : Char(label, i) \in AlphaNum \cup {"-"}

\* /^https:\/\/[a-z0-9][a-z0-9-]*\.myshopify\.com$/.test(o)
IsShopOrigin(o, prefix, suffix) ==
  /\ Len(o) >= Len(prefix) + 1 + Len(suffix)
  /\ StartsWith(o, prefix)
  /\ EndsWith(o, suffix)
  /\ IsLabel(SubSeq(o, Len(prefix) + 1, Len(o) - Len(suffix)))

\* /^https:\/\/[a-z0-9][a-z0-9-]*\.myshopify\.com$/i.test(origin)
IsMyShopify(origin) == IsShopOrigin(ToLowerCase(origin), "https://", ".myshopify.com")

\* Fault: the Origin of the request, whatever it is.
EchoOrigin(origin) == IF Falsy(origin) THEN allowed[1] ELSE origin[1]

\* allowed.includes(origin) || isMyShopify ? origin : allowed[0]
AllowOrigin(origin) ==
  IF ~Falsy(origin) /\ ((\E i \in 1..Len(allowed) : allowed[i] = origin[1])
                          \/ IsMyShopify(origin[1]))
    THEN origin[1]
    ELSE allowed[1]

\* corsHeaders(origin): origin is the Origin header option.
corsHeaders(origin) ==
  [AccessControlAllowOrigin |-> AllowOrigin(origin),
   AccessControlAllowMethods |-> "GET, OPTIONS",
   AccessControlAllowHeaders |-> "Content-Type",
   AccessControlMaxAge |-> "86400",
   ContentType |-> "application/json"]

Response(body, status, headers) == [status |-> status, body |-> body, headers |-> headers]

\* The loader of proxy.check up to the query: the CORS headers and the
\* trimmed pincode.
loaderRead(request) ==
  [headers |-> corsHeaders(request.origin), pincode |-> Trim(OrEmpty(request.pincode))]

\* The answer for the rule option that findUnique returned.
ruleResponse(rule, headers) ==
  IF rule = Null \/ ~rule[1].deliverable
    THEN Response([ok |-> TRUE, deliverable |-> FALSE,
                   message |-> "Not deliverable for this pincode."], 200, headers)
  ELSE Response([ok |-> TRUE, deliverable |-> TRUE,
                 etaMinDays |-> rule[1].etaMinDays,
                 etaMaxDays |-> rule[1].etaMaxDays,
                 codAvailable |-> rule[1].codAvailable,
                 shippingFee |-> rule[1].shippingFee,
                 message |-> "Delivery available."], 200, headers)

\* Fault: a loader that answers a malformed pincode as a client error.
loaderRejecting(rows, request, rd) ==
  IF request.method = "OPTIONS" THEN Response(Null, 204, rd.headers)
  ELSE IF Falsy(request.shop)
    THEN Response([ok |-> FALSE, error |-> "Missing shop"], 400, rd.headers)
  ELSE IF ~IsPincode(rd.pincode)
    THEN Response([ok |-> FALSE, error |-> "Enter 6-digit pincode."], 400, rd.headers)
  ELSE ruleResponse(findUnique(rows, request.shop[1], rd.pincode), rd.headers)

\* The loader from the OPTIONS test on, rd the reading of the request.
loaderAnswer(rows, request, rd) ==
  IF request.method = "OPTIONS" THEN Response(Null, 204, rd.headers)
  ELSE IF Falsy(request.shop)
    THEN Response([ok |-> FALSE, error |-> "Missing shop"], 400, rd.headers)
  ELSE IF ~IsPincode(rd.pincode)
    THEN Response([ok |-> TRUE, deliverable |-> FALSE,
                   message |-> "Enter 6-digit pincode."], 200, rd.headers)
  ELSE ruleResponse(findUnique(rows, request.shop[1], rd.pincode), rd.headers)

\* loaderRead of every request the environment sends, computed once.
LoaderReads == [request \in LookupRequests |-> loaderRead(request)]

\* The loader export of proxy.check: request = [method, origin, shop, pincode],
\* shop and pincode the query parameter options.
loader(rows, request) == loaderAnswer(rows, request, LoaderReads[request])

(* ---------------------------------------------------------------------- *)
(* The state machine                                                       *)
(* ---------------------------------------------------------------------- *)

NoRequest == [route |-> "none"]

NoResponse == [status |-> 0]

Init ==
  /\ store = {}
  /\ nextId = 1
  /\ pc = "idle"
  /\ req = NoRequest
  /\ resp = NoResponse
  /\ existingSet = {}
  /\ invalid = <<>>
  /\ ops = <<>>

AdminRequest(shop, intent, form) ==
  [route |-> "admin", shop |-> shop, intent |-> intent, form |-> form]

\* The admin action answers request with outcome out.
Answer(request, out) ==
  /\ pc = "idle"
  /\ out.db.nextId <= MaxId + 1
  /\ pc' = "done"
  /\ store' = out.db.rows
  /\ nextId' = out.db.nextId
  /\ req' = request
  /\ resp' = out.resp
  /\ existingSet' = out.existingSet
  /\ invalid' = out.invalid
  /\ ops' = out.ops

\* A bulk upload answers: the storage fails at an operation of the batch only.
BulkAnswer(request, out, failAt) == failAt <= Len(out.ops) /\ Answer(request, out)

Create ==
  \E shop \in Shops : \E form \in CreateFormsOf(shop) :
    Answer(AdminRequest(shop, "create", form), createAction(Db(store, nextId), shop, form))

\* A bulk upload; failAt = 0 when the transaction commits (or none is run),
\* failAt = k when the storage fails at the k-th operation of the batch.
BulkUpload ==
  \E shop \in Shops : \E form \in BulkFormsOf(shop), failAt \in 0..MaxOps :
    BulkAnswer(AdminRequest(shop, "bulk_upload", form),
               bulkAction(Db(store, nextId), shop, form, failAt), failAt)

Delete ==
  \E shop \in Shops, form \in DeleteForms :
    Answer(AdminRequest(shop, "delete", form), deleteAction(Db(store, nextId), shop, form))

UnknownIntent ==
  \E shop \in Shops :
    Answer(AdminRequest(shop, "", [id |-> Null]), unknownAction(Db(store, nextId)))

\* One request to the public lookup.
Lookup ==
  \E request \in LookupRequests :
    /\ pc = "idle"
    /\ pc' = "done"
    /\ req' = [route |-> "lookup", request |-> request]
    /\ resp' = loader(store, request)
    /\ existingSet' = {}
    /\ invalid' = <<>>
    /\ ops' = <<>>
    /\ UNCHANGED <<store, nextId>>

\* The response has been sent: the request and the handler's variables are gone.
Finish ==
  /\ pc = "done"
  /\ pc' = "idle"
  /\ req' = NoRequest
  /\ resp' = NoResponse
  /\ existingSet' = {}
  /\ invalid' = <<>>
  /\ ops' = <<>>
  /\ UNCHANGED <<store, nextId>>

Next == Create \/ BulkUpload \/ Delete \/ UnknownIntent \/ Lookup \/ Finish

Spec == Init /\ [][Next]_vars

(* ---------------------------------------------------------------------- *)
(* Requests that overlap                                                   *)
(* ---------------------------------------------------------------------- *)

\* A bulk upload awaits the storage twice: at findMany, which fills
\* existingSet, and at db.$transaction.  Between the two, other requests of
\* the same shop may run.  pc = "fetched" is the upload between its two
\* awaits, with req, existingSet, invalid and ops as the handler holds them.

\* The upload returns before its pre-fetch: no file, or no pincode column.
ReturnsEarly(form) == form.file = Null \/ ~BulkReads[form.file[1]].hasPincode

\* The upload up to the end of the row loop, rd the reading of its file.
Fetched(request, rd) ==
  /\ pc = "idle"
  /\ pc' = "fetched"
  /\ req' = request
  /\ resp' = NoResponse
  /\ existingSet' = ExistingSet(store, request.shop, rd.parsedPincodes)
  /\ invalid' = InvalidOf(rd.results)
  /\ ops' = OpsOf(rd.results, request.shop)
  /\ UNCHANGED <<store, nextId>>

\* A bulk upload from its first line to its pre-fetch and row loop, or to
\* its early return.
BulkPrefetch ==
  \E shop \in Shops : \E form \in BulkFormsOf(shop) :
    IF ReturnsEarly(form)
      THEN Answer(AdminRequest(shop, "bulk_upload", form),
                  bulkAction(Db(store, nextId), shop, form, 0))
      ELSE Fetched(AdminRequest(shop, "bulk_upload", form), BulkReads[form.file[1]])

\* Another request of the same shop runs to its end while the upload waits:
\* it leaves its outcome in the database and answers its own client.
Overlapped(out) ==
  /\ pc = "fetched"
  /\ out.db.nextId <= MaxId + 1
  /\ out.resp.status = 200
  /\ store' = out.db.rows
  /\ nextId' = out.db.nextId
  /\ UNCHANGED <<pc, req, resp, existingSet, invalid, ops>>

OtherCreate ==
  /\ pc = "fetched"
  /\ \E form \in CreateFormsOf(req.shop) :
       Overlapped(createAction(Db(store, nextId), req.shop, form))

OtherDelete ==
  /\ pc = "fetched"
  /\ \E form \in DeleteForms :
       Overlapped(deleteAction(Db(store, nextId), req.shop, form))

OtherBulkUpload ==
  /\ pc = "fetched"
  /\ \E form \in BulkFormsOf(req.shop) :
       Overlapped(bulkAction(Db(store, nextId), req.shop, form, 0))

\* The upload from db.$transaction to its response, with the existingSet it
\* fetched before.
Committed(out, failAt) ==
  /\ pc = "fetched"
  /\ failAt <= Len(ops)
  /\ out.db.nextId <= MaxId + 1
  /\ pc' = "done"
  /\ store' = out.db.rows
  /\ nextId' = out.db.nextId
  /\ resp' = out.resp
  /\ UNCHANGED <<req, existingSet, invalid, ops>>

BulkCommit ==
  /\ pc = "fetched"
  /\ \E failAt \in 0..MaxOps :
       Committed(bulkCommit(Db(store, nextId), BulkReads[req.form.file[1]].parsedPincodes,
                            existingSet, invalid, ops, failAt),
                 failAt)

ConcNext ==
  \/ Create
  \/ Delete
  \/ BulkPrefetch
  \/ OtherCreate
  \/ OtherDelete
  \/ OtherBulkUpload
  \/ BulkCommit
  \/ Finish

ConcSpec == Init /\ [][ConcNext]_vars

(* ---------------------------------------------------------------------- *)
(* Properties                                                              *)
(* ---------------------------------------------------------------------- *)

\* The request just answered is an admin request of this intent.
AdminDone(intent) == pc = "done" /\ req.route = "admin" /\ req.intent = intent

\* The request just answered is a GET of the public lookup.
LookupDone == pc = "done" /\ req.route = "lookup" /\ req.request.method = "GET"

\* HTTP 200 with ok:true and deliverable:false
Negative(response) ==
  response.status = 200 /\ response.body.ok /\ ~response.body.deliverable

RowData(r) == Data(r.deliverable, r.etaMinDays, r.etaMaxDays, r.codAvailable, r.shippingFee)

RulesOf(rows, shop, pincode) == {r \in rows : r.shop = shop /\ r.pincode = pincode}

\* C1, as stated: every GET lookup whose pincode parameter is not six digits
\* is answered HTTP 200 with ok:true and deliverable:false, never HTTP 400.
C1_BadPincodeAlwaysNegative ==
  (LookupDone /\ ~IsPincode(OrEmpty(req.request.pincode))) => Negative(resp)

\* C1, amended: a GET lookup that carries a non-empty shop and whose pincode,
\* trimmed, is not six digits is answered HTTP 200 with ok:true and
\* deliverable:false; a GET lookup without a shop is answered HTTP 400 with
\* ok:false whatever its pincode.
C1_BadPincodeWithShopNegative ==
  LookupDone =>
    /\ (~Falsy(req.request.shop) /\ ~IsPincode(Trim(OrEmpty(req.request.pincode))))
         => Negative(resp)
    /\ Falsy(req.request.shop) => (resp.status = 400 /\ ~resp.body.ok)

\* A lookup of the first shop for "11000a", rules being stored, answered negatively.
C1_Witness ==
  /\ LookupDone
  /\ req.request.shop = Some(ShopA)
  /\ req.request.pincode = Some("11000a")
  /\ store # {}
  /\ Negative(resp)

\* C2: a GET lookup with a shop and a six-digit pincode answers HTTP 200 and
\* ok:true; deliverable is true exactly when the store holds a deliverable rule
\* for that shop and pincode, and then the four fields of the answer are the
\* rule's; otherwise deliverable is false; and the answer is the one the
\* shop's own rules alone give.
C2_LookupAnswersFromOwnRule ==
  (LookupDone /\ ~Falsy(req.request.shop) /\ IsPincode(OrEmpty(req.request.pincode))) =>
    LET shop   == req.request.shop[1]
        rules  == {r \in RulesOf(store, shop, req.request.pincode[1]) : r.deliverable}
    IN  /\ resp.status = 200
        /\ resp.body.ok
        /\ resp.body.deliverable <=> rules # {}
        /\ \A r \in rules :
             /\ resp.body.etaMinDays = r.etaMinDays
             /\ resp.body.etaMaxDays = r.etaMaxDays
             /\ resp.body.codAvailable = r.codAvailable
             /\ resp.body.shippingFee = r.shippingFee
        /\ resp = loader({r \in store : r.shop = shop}, req.request)

\* A lookup answered deliverable:true while another shop blocks the same pincode.
C2_Witness ==
  /\ LookupDone
  /\ ~Falsy(req.request.shop)
  /\ IsPincode(OrEmpty(req.request.pincode))
  /\ resp.status = 200
  /\ resp.body.deliverable
  /\ \E r \in store : /\ r.shop # req.request.shop[1]
                      /\ r.pincode = req.request.pincode[1]
                      /\ ~r.deliverable

\* The indices of the headers that lower-case to name.
ColumnsNamed(headers, name) == {i \in 1..Len(headers) : ToLowerCase(headers[i]) = name}

\* The text row r holds in the column named name in any case, "" without one.
CellNamed(headers, r, name) ==
  IF ColumnsNamed(headers, name) = {} THEN ""
  ELSE r[headers[CHOOSE i \in ColumnsNamed(headers, name) :
                   \A j \in ColumnsNamed(headers, name) : j <= i]]

\* text is empty or a non-negative integer
NumericOk(text) == Trim(text) = "" \/ toIntOrNull(Some(text)) # Null

\* r has a six-digit pincode and valid (or empty) etaMinDays, etaMaxDays and shippingFee
RowAcceptable(headers, r) ==
  /\ IsPincode(Trim(CellNamed(headers, r, "pincode")))
  /\ \A name \in {"etamindays", "etamaxdays", "shippingfee"} :
       NumericOk(CellNamed(headers, r, name))

\* The data rows of csv that are acceptable.
AcceptableRows(csv) == {i \in 1..Len(csv.rows) : RowAcceptable(csv.headers, csv.rows[i])}

\* C3: in a bulk upload that passes the header check, invalidCount plus the
\* number of upserts is the number of data rows, and every row with a
\* six-digit pincode and valid (or empty) etaMinDays, etaMaxDays and
\* shippingFee results in exactly one upsert.
C3_EveryRowClassifiedOnce ==
  (AdminDone("bulk_upload") /\ resp.status = 200) =>
    /\ resp.body.invalidCount + Len(ops) = Len(BulkReads[req.form.file[1]].csv.rows)
    /\ Len(ops) = Cardinality(AcceptableRows(BulkReads[req.form.file[1]].csv))
    /\ \A i \in AcceptableRows(BulkReads[req.form.file[1]].csv) :
         BulkReads[req.form.file[1]].results[i].valid

\* C4: in a bulk upload result, inserted is the number of upserted rows whose
\* pincode was not in the pre-fetched existing set and updated the number of
\* those whose pincode was in it, so inserted + updated is the number of
\* upserts and a rejected row is in neither count.
C4_CountsAreTheUpserts ==
  (AdminDone("bulk_upload") /\ resp.status = 200) =>
    /\ resp.body.inserted = Cardinality({k \in 1..Len(ops) : ops[k].pincode \notin existingSet})
    /\ resp.body.updated = Cardinality({k \in 1..Len(ops) : ops[k].pincode \in existingSet})
    /\ resp.body.inserted + resp.body.updated = Len(ops)

\* C5: the same file uploaded again for the same shop right after an upload
\* that succeeded reports inserted = 0 and counts every upserted row as updated.
C5_SecondRunInsertsNothing ==
  (AdminDone("bulk_upload") /\ resp.status = 200) =>
    /\ bulkAction(Db(store, nextId), req.shop, req.form, 0).resp.body.inserted = 0
    /\ bulkAction(Db(store, nextId), req.shop, req.form, 0).resp.body.updated = Len(ops)

\* The last operation of batch on the key of its k-th operation.
LastFor(batch, k) ==
  CHOOSE j \in k..Len(batch) :
    /\ batch[j].pincode = batch[k].pincode
    /\ \A m \in k..Len(batch) : batch[m].pincode = batch[k].pincode => m <= j

\* Row r is what operation op writes.
Writes(op, r) == r.shop = op.shop /\ r.pincode = op.pincode /\ RowData(r) = op.data

\* C6: a bulk upload either answers HTTP 200 with every upsert of its batch
\* reflected in the store (for a pincode given twice, the later one), or
\* answers an error with the store exactly as before the request; every row
\* the request wrote is the row of an upsert of the batch, and no row of
\* another key is touched.
C6_BatchIsAtomic ==
  [][(pc = "idle" /\ pc' = "done" /\ req'.route = "admin" /\ req'.intent = "bulk_upload") =>
       /\ \/ /\ resp'.status = 200
             /\ \A k \in 1..Len(ops') :
                  \E r \in store' : Writes(ops'[LastFor(ops', k)], r)
          \/ /\ resp'.status # 200
             /\ store' = store
       /\ \A r \in store' \ store : \E k \in 1..Len(ops') : Writes(ops'[k], r)
       /\ \A r \in store \ store' :
            \E k \in 1..Len(ops') : r.shop = ops'[k].shop /\ r.pincode = ops'[k].pincode
     ]_vars

\* A bulk upload of two upserts or more that the storage failed.
C6_Witness ==
  /\ AdminDone("bulk_upload")
  /\ resp.status = 500
  /\ Len(ops) >= 2

\* null or a non-negative integer
NullOrNat(o) == o = Null \/ (Len(o) = 1 /\ o[1] \in Nat)

\* C7: the store holds at most one row per (shop, pincode), every stored
\* pincode is six decimal digits, and etaMinDays, etaMaxDays and shippingFee
\* are each null or a non-negative integer.
C7_StoreInvariant ==
  /\ \A r, q \in store : (r.shop = q.shop /\ r.pincode = q.pincode) => r = q
  /\ \A r \in store :
       /\ IsPincode(r.pincode)
       /\ NullOrNat(r.etaMinDays)
       /\ NullOrNat(r.etaMaxDays)
       /\ NullOrNat(r.shippingFee)

\* Two shops hold a rule for one pincode after a create, one rule with an
\* etaMinDays and one without.
C7_Witness ==
  /\ AdminDone("create")
  /\ resp.status = 200
  /\ \E r, q \in store : r.shop # q.shop /\ r.pincode = q.pincode
  /\ \E r \in store : r.etaMinDays = Null
  /\ \E r \in store : r.etaMinDays # Null

\* C8: after a successful create the store holds exactly one row for the
\* (shop, pincode), with every mutable field at the submitted value (null for
\* an empty numeric input); a row that existed for it keeps its id, shop,
\* pincode and createdAt; no other row changes; and submitting the same form
\* again changes nothing.
C8_CreateIsIdempotentReplacement ==
  [][(pc = "idle" /\ pc' = "done" /\ req'.route = "admin" /\ req'.intent = "create"
        /\ resp'.status = 200) =>
       LET shop    == req'.shop
           form    == req'.form
           pincode == Trim(OrEmpty(form.pincode))
       IN  /\ Cardinality(RulesOf(store', shop, pincode)) = 1
           /\ \A r \in RulesOf(store', shop, pincode) :
                /\ RowData(r) = CreateReads[form].data
                /\ Falsy(form.etaMinDays) => r.etaMinDays = Null
                /\ Falsy(form.etaMaxDays) => r.etaMaxDays = Null
                /\ Falsy(form.shippingFee) => r.shippingFee = Null
           /\ \A r \in RulesOf(store, shop, pincode) :
                \E q \in RulesOf(store', shop, pincode) :
                  q.id = r.id /\ q.shop = r.shop /\ q.pincode = r.pincode
                    /\ q.createdAt = r.createdAt
           /\ store' \ RulesOf(store', shop, pincode) = store \ RulesOf(store, shop, pincode)
           /\ createAction(Db(store', nextId'), shop, form).db = Db(store', nextId')
     ]_vars

\* A create answered ok for a key whose row is older than another row: the
\* row was there before the request, and now holds only nulls where it is asked.
C8_Witness ==
  /\ AdminDone("create")
  /\ resp.status = 200
  /\ Falsy(req.form.etaMinDays)
  /\ \E r \in RulesOf(store, req.shop, Trim(OrEmpty(req.form.pincode))) :
       \E q \in store : q.createdAt > r.createdAt

\* The lookup a shopper of shop sends for pincode.
LookupFor(shop, pincode) ==
  [method |-> "GET", origin |-> Null, shop |-> Some(shop), pincode |-> Some(pincode)]

\* C9: a delete that succeeds removes exactly the row with the id and leaves
\* every other row unchanged, and a lookup for the removed row's shop and
\* pincode then answers HTTP 200 with deliverable:false; a key without a row
\* gets one only by a create or a bulk upload of its shop that upserts its
\* pincode; and every lookup for a key without a row answers HTTP 200 with
\* deliverable:false.
C9_DeleteThenLookupNegative ==
  [][/\ (pc = "idle" /\ pc' = "done" /\ req'.route = "admin" /\ req'.intent = "delete"
           /\ resp'.status = 200) =>
          /\ Cardinality({r \in store : r.id = Trim(OrEmpty(req'.form.id))}) = 1
          /\ store' = {r \in store : r.id # Trim(OrEmpty(req'.form.id))}
          /\ \A r \in store \ store' : Negative(loader(store', LookupFor(r.shop, r.pincode)))
     /\ \A r \in store' :
          RulesOf(store, r.shop, r.pincode) = {} =>
            /\ req'.route = "admin"
            /\ req'.shop = r.shop
            /\ \/ req'.intent = "create" /\ Trim(OrEmpty(req'.form.pincode)) = r.pincode
               \/ req'.intent = "bulk_upload" /\ \E k \in 1..Len(ops') : ops'[k].pincode = r.pincode
     /\ (pc' = "done" /\ req'.route = "lookup" /\ req'.request.method = "GET"
           /\ ~Falsy(req'.request.shop)
           /\ RulesOf(store', req'.request.shop[1], Trim(OrEmpty(req'.request.pincode))) = {}) =>
          Negative(resp')
    ]_vars

\* A delete answered ok that left another rule in the store.
C9_Witness ==
  /\ AdminDone("delete")
  /\ resp.status = 200
  /\ store # {}

\* C10: a bulk upload of a file whose header row has no column named pincode
\* in any case (an empty file has none) is answered HTTP 400 with ok:false, no
\* row is processed and the store is unchanged; a file with the column is
\* answered HTTP 200 with ok:true and its rejected rows in invalidCount and
\* invalid, whose entries are the first of the rejected rows (a row whose
\* pincode is not six digits is among the rejected under its line number),
\* unless the storage fails the batch of its accepted rows.
C10_HeaderCheckOnlyRejects ==
  [][(pc = "idle" /\ pc' = "done" /\ req'.route = "admin" /\ req'.intent = "bulk_upload"
        /\ req'.form.file # Null) =>
       IF ColumnsNamed(BulkReads[req'.form.file[1]].csv.headers, "pincode") = {}
         THEN /\ resp'.status = 400
              /\ ~resp'.body.ok
              /\ ops' = <<>>
              /\ invalid' = <<>>
              /\ store' = store
         ELSE \/ /\ resp'.status = 200
                 /\ resp'.body.ok
                 /\ resp'.body.invalidCount = Len(invalid')
                 /\ Len(resp'.body.invalid) <= Len(invalid')
                 /\ \A k \in 1..Len(resp'.body.invalid) : resp'.body.invalid[k] = invalid'[k]
                 /\ Len(invalid') + Len(ops') = Len(BulkReads[req'.form.file[1]].csv.rows)
                 /\ \A i \in 1..Len(BulkReads[req'.form.file[1]].csv.rows) :
                      ~IsPincode(Trim(CellNamed(BulkReads[req'.form.file[1]].csv.headers,
                                                BulkReads[req'.form.file[1]].csv.rows[i],
                                                "pincode")))
                        => \E k \in 1..Len(invalid') : invalid'[k].row = i + 1
              \/ /\ resp'.status = 500
                 /\ Len(ops') > 0
                 /\ store' = store
     ]_vars

\* An empty file answered HTTP 400 while rules are stored.
C10_Witness ==
  /\ AdminDone("bulk_upload")
  /\ req.form.file = Some("")
  /\ resp.status = 400
  /\ store # {}

\* The data rows of the uploaded file that the row loop rejected.
RejectedRows(rd) == {i \in 1..Len(rd.results) : ~rd.results[i].valid}

\* The k-th member of a set of numbers, in increasing order.
Nth(S, k) == CHOOSE i \in S : Cardinality({j \in S : j < i}) = k - 1

\* The smaller of two numbers.
Min(a, b) == IF a < b THEN a ELSE b

\* C11: in every ok:true bulk upload response, invalidCount is the number of
\* data rows the validation rejected (the data rows less the upserts), the
\* invalid list has min(invalidCount, 50) entries, and its k-th entry is the
\* k-th rejected row of the file, with the row number of its position among
\* the data rows counted from 0, plus 2, and the pincode text of that row.
C11_InvalidListIsCappedPrefix ==
  (AdminDone("bulk_upload") /\ resp.status = 200) =>
    /\ resp.body.invalidCount = Cardinality(RejectedRows(BulkReads[req.form.file[1]]))
    /\ resp.body.invalidCount = Len(BulkReads[req.form.file[1]].csv.rows) - Len(ops)
    /\ Len(resp.body.invalid) = Min(resp.body.invalidCount, 50)
    /\ \A k \in 1..Len(resp.body.invalid) :
         /\ resp.body.invalid[k].row
              = (Nth(RejectedRows(BulkReads[req.form.file[1]]), k) - 1) + 2
         /\ resp.body.invalid[k].pincode
              = Trim(CellNamed(BulkReads[req.form.file[1]].csv.headers,
                               BulkReads[req.form.file[1]].csv.rows[resp.body.invalid[k].row - 1],
                               "pincode"))
    /\ \A i \in 1..Len(BulkReads[req.form.file[1]].csv.rows) :
         ~IsPincode(Trim(CellNamed(BulkReads[req.form.file[1]].csv.headers,
                                   BulkReads[req.form.file[1]].csv.rows[i], "pincode")))
           => i \in RejectedRows(BulkReads[req.form.file[1]])

\* An upload answered with more rejected rows than the list holds, a good
\* row standing between them.
C11_Witness ==
  /\ AdminDone("bulk_upload")
  /\ resp.status = 200
  /\ resp.body.invalidCount > 50
  /\ Len(resp.body.invalid) = 50
  /\ Len(ops) = 1
  /\ resp.body.invalid[50].row = 52

\* The request just answered is a request to the public lookup, of any method.
AnyLookupDone == pc = "done" /\ req.route = "lookup"

\* origin is in the fixed allow-list.
AllowListed(origin) == \E i \in 1..Len(allowed) : allowed[i] = origin

\* origin is https://<subdomain>.myshopify.com in any case, the subdomain one
\* label of letters, digits and hyphens that does not start with a hyphen.
StorefrontOrigin(origin) ==
  /\ StartsWith(ToLowerCase(origin), "https://")
  /\ EndsWith(ToLowerCase(origin), ".myshopify.com")
  /\ Len(origin) > Len("https://") + Len(".myshopify.com")
  /\ Char(origin, Len("https://") + 1) # "-"
  /\ \A i \in (Len("https://") + 1)..(Len(origin) - Len(".myshopify.com")) :
       LowerChar(Char(origin, i)) \in AlphaNum \cup {"-"}

\* C12: every lookup response, the 204 of an OPTIONS preflight included,
\* carries Access-Control-Allow-Origin equal to the request's Origin when that
\* origin is allow-listed or is a storefront origin, and equal to the first
\* allow-listed origin otherwise (Origin absent, empty or not matching).
C12_AllowOriginPolicy ==
  AnyLookupDone =>
    /\ req.request.method = "OPTIONS" => resp.status = 204
    /\ resp.headers.AccessControlAllowOrigin =
         IF /\ ~Falsy(req.request.origin)
            /\ (AllowListed(req.request.origin[1]) \/ StorefrontOrigin(req.request.origin[1]))
           THEN req.request.origin[1]
           ELSE allowed[1]
    /\ resp.headers.AccessControlAllowOrigin \in
         {allowed[1], "https://ppdt-store.myshopify.com", "https://Other-1.MyShopify.com"}

\* A preflight from a storefront origin written in mixed case, answered 204
\* with that origin.
C12_Witness ==
  /\ AnyLookupDone
  /\ req.request.method = "OPTIONS"
  /\ req.request.origin = Some("https://Other-1.MyShopify.com")
  /\ resp.status = 204
  /\ resp.headers.AccessControlAllowOrigin = "https://Other-1.MyShopify.com"

\* The data rows of the uploaded file that the row loop accepted.
ValidRows(rd) == {i \in 1..Len(rd.results) : rd.results[i].valid}

\* text is true, 1 or yes in any case.
IsTrueWord(text) == ToLowerCase(Trim(text)) \in {"true", "1", "yes"}

\* C13: in a bulk upload, the deliverable flag written for an accepted row is
\* true when the file has no deliverable column, when the cell is empty, when
\* the cell is none of true, 1, yes in any case, and when it is one of them;
\* the codAvailable flag written is true exactly when the cell is true, 1 or
\* yes in any case (an absent column and an empty cell give false).
C13_BooleanDefaults ==
  (AdminDone("bulk_upload") /\ resp.status = 200) =>
    \A k \in 1..Len(ops) :
      /\ ( \/ ColumnsNamed(BulkReads[req.form.file[1]].csv.headers, "deliverable") = {}
           \/ CellNamed(BulkReads[req.form.file[1]].csv.headers,
                        BulkReads[req.form.file[1]].csv.rows[
                          Nth(ValidRows(BulkReads[req.form.file[1]]), k)],
                        "deliverable") = ""
           \/ ~IsTrueWord(CellNamed(BulkReads[req.form.file[1]].csv.headers,
                                    BulkReads[req.form.file[1]].csv.rows[
                                      Nth(ValidRows(BulkReads[req.form.file[1]]), k)],
                                    "deliverable"))
           \/ IsTrueWord(CellNamed(BulkReads[req.form.file[1]].csv.headers,
                                   BulkReads[req.form.file[1]].csv.rows[
                                     Nth(ValidRows(BulkReads[req.form.file[1]]), k)],
                                   "deliverable")) )
           => ops[k].data.deliverable
      /\ ops[k].data.codAvailable
           <=> IsTrueWord(CellNamed(BulkReads[req.form.file[1]].csv.headers,
                                    BulkReads[req.form.file[1]].csv.rows[
                                      Nth(ValidRows(BulkReads[req.form.file[1]]), k)],
                                    "codavailable"))

\* The last accepted row of the file with the pincode of its accepted row i.
LastValid(rd, i) ==
  CHOOSE j \in ValidRows(rd) :
    /\ rd.results[j].pincode = rd.results[i].pincode
    /\ \A m \in ValidRows(rd) : rd.results[m].pincode = rd.results[i].pincode => m <= j

\* C14: after a bulk upload answered ok, the batch holds one upsert per
\* accepted row, in file order, and for every accepted row the store holds
\* exactly one row for the shop and that pincode, whose mutable fields are
\* those of the last accepted row of the file with that pincode: a later
\* rejected row with the same pincode changes nothing.
C14_LastDuplicateWins ==
  (AdminDone("bulk_upload") /\ resp.status = 200) =>
    /\ Len(ops) = Cardinality(ValidRows(BulkReads[req.form.file[1]]))
    /\ \A k \in 1..Len(ops) :
         /\ ops[k].pincode
              = BulkReads[req.form.file[1]].results[
                  Nth(ValidRows(BulkReads[req.form.file[1]]), k)].pincode
         /\ ops[k].data
              = BulkReads[req.form.file[1]].results[
                  Nth(ValidRows(BulkReads[req.form.file[1]]), k)].data
    /\ \A i \in ValidRows(BulkReads[req.form.file[1]]) :
         /\ Cardinality(RulesOf(store, req.shop,
                                BulkReads[req.form.file[1]].results[i].pincode)) = 1
         /\ \A r \in RulesOf(store, req.shop, BulkReads[req.form.file[1]].results[i].pincode) :
              RowData(r) = BulkReads[req.form.file[1]].results[
                             LastValid(BulkReads[req.form.file[1]], i)].data
    /\ req.form.file = Some("pincode,shippingFee\n110001,10\n110001,-5") =>
         \A r \in RulesOf(store, req.shop, "110001") : r.shippingFee = Some(10)

\* An upload of two accepted rows with one pincode and different fees, the
\* store holding the fee of the second.
C14_Witness ==
  /\ AdminDone("bulk_upload")
  /\ resp.status = 200
  /\ Len(ops) = 2
  /\ ops[1].pincode = ops[2].pincode
  /\ ops[1].data.shippingFee = Some(20)
  /\ ops[2].data.shippingFee = Some(10)
  /\ \A r \in RulesOf(store, req.shop, ops[1].pincode) : r.shippingFee = Some(10)

\* C15: an admin action (create, bulk_upload, delete) under the session of a
\* shop leaves every row of every other shop in the store, unchanged,
\* whatever its form holds.
C15_OtherShopsRowsUntouched ==
  [][(pc = "idle" /\ pc' = "done" /\ req'.route = "admin"
        /\ req'.intent \in {"create", "bulk_upload", "delete"}) =>
       \A r \in store : r.shop # req'.shop => r \in store'
    ]_vars

\* The pincodes of a batch are pairwise distinct.
DistinctPincodes(batch) ==
  \A j, k \in 1..Len(batch) : batch[j].pincode = batch[k].pincode => j = k

\* C16: a bulk upload of a file whose rows are all accepted and whose
\* pincodes are pairwise distinct, with other requests of its shop running
\* between its pre-fetch and its transaction, reports as inserted the number
\* of rows its batch created and as updated the number of rows that existed
\* when the batch ran and that it overwrote.
C16_CountsUnderOverlap ==
  [][(pc = "fetched" /\ pc' = "done" /\ resp'.status = 200
        /\ invalid = <<>> /\ DistinctPincodes(ops)) =>
       /\ resp'.body.inserted
            = Cardinality({k \in 1..Len(ops) : RulesOf(store, req.shop, ops[k].pincode) = {}})
       /\ resp'.body.updated
            = Cardinality({k \in 1..Len(ops) : RulesOf(store, req.shop, ops[k].pincode) # {}})
       /\ resp'.body.inserted = Cardinality(store') - Cardinality(store)
    ]_vars
====
